---- MODULE Spec2Model ----
(***************************************************************************)
(* Optimizer::LocalBundleAdjustment of CubeSLAM (src/src/OptimizerLocal.cc)*)
(* as a state machine over a shared scene graph (KeyFrames, MapPoints,     *)
(* object Landmarks) and a set of invocations, each with the locals of the *)
(* function.  An invocation advances through the function one block at a   *)
(* time; blocks of different invocations interleave.                       *)
(***************************************************************************)
EXTENDS Integers, Sequences, FiniteSets, TLC

\* ------------------------------------------------------------------ bounds
MaxKFId == 2        \* KeyFrame ids are 0..MaxKFId
MaxMPId == 1        \* MapPoint ids are 0..MaxMPId
MaxLMId == 1        \* Landmark ids are 0..MaxLMId
MaxLinks == 2       \* observation links of an initial scene
MaxRuns == 3        \* invocations started in one behaviour
MaxExtras == 1      \* landmark sightings, bad flags, stereo KeyFrames of a scene
MaxOutliers == 1    \* failing reprojection residuals the solver leaves in a behaviour

KFs == 0..MaxKFId
MPs == 0..MaxMPId
LMs == 0..MaxLMId
Procs == {1, 2}     \* threads that may call LocalBundleAdjustment
NoStamp == -1       \* a stamp field no invocation has written yet

\* ------------------------------------------------- program constants
Chi2Mono == 5991    \* 5.991, in thousandths
Chi2Stereo == 7815  \* 7.815, in thousandths
ItsInitial == 5
ItsRefined == 10

\* ------------------------------------------------------------------ helpers
Min(S) == CHOOSE x \in S : \A y \in S : x <= y
Max0(S) == IF S = {} THEN 0 ELSE CHOOSE x \in S : \A y \in S : y <= x

RECURSIVE SortedSeq(_)
\* the elements of a finite set of integers in ascending order: the order in
\* which a container of the scene graph is iterated
SortedSeq(S) == IF S = {} THEN <<>> ELSE <<Min(S)>> \o SortedSeq(S \ {Min(S)})

Range(s) == {s[n] : n \in 1..Len(s)}
NoDup(s) == \A m, n \in 1..Len(s) : m # n => s[m] # s[n]

VARIABLES
    \* KeyFrame
    kfBad,                  \* isBad()
    covis,                  \* GetVectorCovisibleKeyFrames()
    kfMatches,              \* GetMapPointMatches(): the point-match table
    kfLandmarks,            \* GetLandmarks()
    kfStereo,               \* mvuRight[idx] >= 0 for the KeyFrame's keypoints
    kfPose,                 \* GetPose() / cam_pose_Twc
    landmarkMeasurements,   \* KeyFrame::landmarkMeasurements
    mnBALocalForKF,         \* KeyFrame::mnBALocalForKF
    mnBAFixedForKF,         \* KeyFrame::mnBAFixedForKF
    \* MapPoint
    mpBad,                  \* isBad()
    mpObs,                  \* GetObservations(): the observation set
    mpPos,                  \* GetWorldPos()
    mpBALocalForKF,         \* MapPoint::mnBALocalForKF
    \* Landmark
    lmCuboid,               \* GetCuboid()
    \* Map and caller
    mMutexMapUpdate,        \* holder of Map::mMutexMapUpdate
    stopFlag,               \* *pbStopFlag
    crashed,                \* the process was killed by a fault
    runsLeft,               \* per thread: the calls it may still make
    outliersLeft,           \* failing residuals the solver may still leave
    st                      \* per thread: the locals of its invocation

static == <<kfBad, covis, kfLandmarks, kfStereo, mpBad>>
budget == <<runsLeft, outliersLeft>>
stamps == <<mnBALocalForKF, mnBAFixedForKF, mpBALocalForKF>>
links == <<kfMatches, mpObs>>
estimates == <<kfPose, mpPos, lmCuboid>>
vars == <<kfBad, covis, kfMatches, kfLandmarks, kfStereo, kfPose,
          landmarkMeasurements, mnBALocalForKF, mnBAFixedForKF, mpBad, mpObs,
          mpPos, mpBALocalForKF, lmCuboid, mMutexMapUpdate, stopFlag, crashed,
          runsLeft, outliersLeft, st>>

\* ---------------------------------------------------------------- values
InitValue == [by |-> 0, of |-> -1]     \* an estimate no invocation has written
Garbage == [by |-> -1, of |-> -1]      \* what a read through a bad pointer yields
\* an entry of KeyFrame::landmarkMeasurements: none, one that operator[]
\* default-inserted, or the relative cuboid pose invocation `by` computed
AbsentMeasurement == [state |-> "absent", by |-> 0, cuboid |-> InitValue, pose |-> InitValue]
DefaultMeasurement == [state |-> "default", by |-> 0, cuboid |-> InitValue, pose |-> InitValue]
NullVertex == [id |-> -1, kind |-> "null", ent |-> -1, fixed |-> FALSE,
               estimate |-> Garbage]
\* Map::mMutexMapUpdate: unlocked, held by an invocation, held by another thread
Unlocked == [kind |-> "free", id |-> 0]
HeldBy(i) == [kind |-> "lba", id |-> i]
HeldByOther == [kind |-> "other", id |-> 0]

\* the locals of an invocation that has not started
IdleLocals ==
    [pc |-> "idle", run |-> 0, pKF |-> NoStamp, hasStopFlag |-> FALSE,
     lLocalKeyFrames |-> <<>>, lLocalMapPoints |-> <<>>, lFixedCameras |-> <<>>,
     lLocalLandmarks |-> {}, cursor |-> 1,
     maxKFId |-> 0, maxLandmarkId |-> 0,
     vertices |-> {}, added |-> <<>>,
     vpEdgesMono |-> <<>>, vpEdgesStereo |-> <<>>, cuboidEdges |-> <<>>,
     optimizeCalls |-> <<>>, stopSeen |-> <<>>, bDoMore |-> TRUE,
     marked |-> FALSE, classifiedAfter |-> -1,
     vToErase |-> <<>>, written |-> <<>>]

\* ------------------------------------------------------------ initial scenes
RECURSIVE UpTo(_, _)
\* the subsets of S with at most n elements
UpTo(S, n) ==
    IF n = 0 THEN {{}}
    ELSE LET prev == UpTo(S, n - 1) IN prev \cup {X \cup {x} : X \in prev, x \in S}

\* KeyFrames of a set C (not a singleton) are mutually covisible
CovisOf(C) == [k \in KFs |-> IF k \in C THEN C \ {k} ELSE {}]
Clusters == {C \in SUBSET KFs : Cardinality(C) # 1}
LinkSets == UpTo(KFs \X MPs, MaxLinks)
\* what a scene may have beyond links and covisibility: a Landmark seen from
\* a KeyFrame, a bad KeyFrame, a bad MapPoint, a KeyFrame with stereo keypoints
Features == ({"lm"} \X KFs \X LMs) \cup ({"badKF", "stereo"} \X KFs \X {0})
            \cup ({"badMP"} \X MPs \X {0})

\* what the scene graph holds: every field of KeyFrames, MapPoints, Landmarks
SceneGraph ==
    [kfPose |-> kfPose, mpPos |-> mpPos, lmCuboid |-> lmCuboid,
     kfMatches |-> kfMatches, mpObs |-> mpObs, kfBad |-> kfBad, mpBad |-> mpBad,
     landmarkMeasurements |-> landmarkMeasurements,
     mnBALocalForKF |-> mnBALocalForKF, mnBAFixedForKF |-> mnBAFixedForKF,
     mpBALocalForKF |-> mpBALocalForKF]

InitScene(C, R, X) ==
    /\ covis = CovisOf(C)
    /\ kfMatches = [k \in KFs |-> {p \in MPs : <<k, p>> \in R}]
    /\ mpObs = [p \in MPs |-> {k \in KFs : <<k, p>> \in R}]
    /\ kfLandmarks = [k \in KFs |-> {l \in LMs : <<"lm", k, l>> \in X}]
    /\ kfBad = [k \in KFs |-> <<"badKF", k, 0>> \in X]
    /\ kfStereo = [k \in KFs |-> <<"stereo", k, 0>> \in X]
    /\ mpBad = [p \in MPs |-> <<"badMP", p, 0>> \in X]
    /\ kfPose = [k \in KFs |-> InitValue]
    /\ mpPos = [p \in MPs |-> InitValue]
    /\ lmCuboid = [l \in LMs |-> InitValue]
    /\ landmarkMeasurements = [k \in KFs |-> [l \in LMs |-> AbsentMeasurement]]
    /\ mnBALocalForKF = [k \in KFs |-> NoStamp]
    /\ mnBAFixedForKF = [k \in KFs |-> NoStamp]
    /\ mpBALocalForKF = [p \in MPs |-> NoStamp]
    /\ mMutexMapUpdate = Unlocked
    /\ stopFlag = FALSE
    /\ crashed = FALSE
    /\ st = [i \in Procs |-> IdleLocals]
    /\ outliersLeft = MaxOutliers

\* one thread, one invocation, every scene
Init ==
    /\ \E C \in Clusters, R \in LinkSets, X \in UpTo(Features, MaxExtras) :
           InitScene(C, R, X)
    /\ runsLeft = [i \in Procs |-> IF i = 1 THEN 1 ELSE 0]

\* one thread, MaxRuns invocations one after the other
InitSeq ==
    /\ \E C \in Clusters, R \in LinkSets : InitScene(C, R, {})
    /\ runsLeft = [i \in Procs |-> IF i = 1 THEN MaxRuns ELSE 0]

\* every thread, one invocation each, concurrently, on the scenes in which
\* KeyFrames 0 and 1 are covisible and MapPoint 0 has MaxLinks observers
InitConc ==
    /\ \E C \in {{0, 1}}, R \in {S \in LinkSets : Cardinality(S) = MaxLinks} :
          /\ \A link \in R : link[2] = 0
          /\ InitScene(C, R, {})
    /\ runsLeft = [i \in Procs |-> 1]

\* --------------------------------------------------------------- actions
Running(i) == ~crashed
At(i, label) == Running(i) /\ st[i].pc = label
Set(i, locals) == st' = [st EXCEPT ![i] = locals]

\* lines 41-54: the call, the trigger KeyFrame and its covisible neighbours
Start(i) ==
    /\ At(i, "idle")
    /\ runsLeft[i] > 0
    /\ \E K \in KFs :
          /\ ~kfBad[K]
          /\ mnBALocalForKF' =
                [k \in KFs |-> IF k = K \/ k \in covis[K] THEN K ELSE mnBALocalForKF[k]]
          /\ Set(i, [IdleLocals EXCEPT
                       !.pc = "points", !.pKF = K,
                       !.run = (i - 1) * MaxRuns + runsLeft[i],
                       !.hasStopFlag = TRUE,
                       !.lLocalKeyFrames =
                           <<K>> \o SelectSeq(SortedSeq(covis[K]), LAMBDA k : ~kfBad[k])])
    /\ runsLeft' = [runsLeft EXCEPT ![i] = @ - 1]
    /\ UNCHANGED <<static, links, estimates, landmarkMeasurements, mnBAFixedForKF,
                   mpBALocalForKF, mMutexMapUpdate, stopFlag, crashed, outliersLeft>>

\* lines 56-68, one Local KeyFrame: its matches that are not bad and do not
\* carry the trigger's stamp are appended and stamped
SelectLocalMapPoints(i) ==
    /\ At(i, "points")
    /\ LET L == st[i]
           K == L.pKF
           kf == L.lLocalKeyFrames[L.cursor]
           new == {p \in kfMatches[kf] : ~mpBad[p] /\ mpBALocalForKF[p] # K}
           last == L.cursor = Len(L.lLocalKeyFrames)
           points == L.lLocalMapPoints \o SortedSeq(new)
       IN /\ Set(i, [L EXCEPT
                       !.lLocalMapPoints = points,
                       !.cursor = IF last THEN 1 ELSE @ + 1,
                       !.pc = IF ~last THEN "points"
                              ELSE IF points = <<>> THEN "vertices" ELSE "fixed"])
          /\ mpBALocalForKF' =
                [p \in MPs |-> IF p \in new THEN K ELSE mpBALocalForKF[p]]
    /\ UNCHANGED <<static, links, estimates, landmarkMeasurements, mnBALocalForKF,
                   mnBAFixedForKF, mMutexMapUpdate, stopFlag, crashed, budget>>

\* lines 70-83, one Local MapPoint: its observers that carry neither stamp of
\* the trigger are stamped and, when not bad, appended
SelectFixedCameras(i) ==
    /\ At(i, "fixed")
    /\ LET L == st[i]
           K == L.pKF
           mp == L.lLocalMapPoints[L.cursor]
           new == {k \in mpObs[mp] : mnBALocalForKF[k] # K /\ mnBAFixedForKF[k] # K}
           last == L.cursor = Len(L.lLocalMapPoints)
       IN /\ Set(i, [L EXCEPT
                       !.lFixedCameras = @ \o SortedSeq({k \in new : ~kfBad[k]}),
                       !.cursor = IF last THEN 1 ELSE @ + 1,
                       !.pc = IF last THEN "vertices" ELSE "fixed"])
          /\ mnBAFixedForKF' =
                [k \in KFs |-> IF k \in new THEN K ELSE mnBAFixedForKF[k]]
    /\ UNCHANGED <<static, links, estimates, landmarkMeasurements, mnBALocalForKF,
                   mpBALocalForKF, mMutexMapUpdate, stopFlag, crashed, budget>>

\* ------------------------------------------------- the solver's problem
\* the variable ids of a window (lines 111, 133, 167) and the id the result
\* commit looks a point up under (line 368)
PoseVertexId(kf) == kf
CuboidVertexId(lm, maxKFId) == maxKFId + 1 + lm
\* a point id computed as the commit computes it, without the landmark range
PointVertexIdWithoutLandmarks(mp, maxKFId, maxLandmarkId) == mp + maxKFId + 1
PointVertexId(mp, maxKFId, maxLandmarkId) == mp + maxKFId + maxLandmarkId + 2
RecoverPointVertexId(mp, maxKFId) == mp + maxKFId + 1

\* g2o::SparseOptimizer::addVertex: an id already in the problem is refused
AddVertex(V, v) == IF \E w \in V : w.id = v.id THEN V ELSE V \cup {v}
\* what a factor keeps of an endpoint: the variable's id and kind
End(v) == [id |-> v.id, kind |-> v.kind]
\* g2o::SparseOptimizer::vertex: the variable with this id, or null
Vertex(V, id) ==
    IF \E w \in V : w.id = id THEN CHOOSE w \in V : w.id = id ELSE NullVertex

RECURSIVE AddVertices(_, _)
AddVertices(V, vs) ==
    IF vs = <<>> THEN V ELSE AddVertices(AddVertex(V, Head(vs)), Tail(vs))

RECURSIVE Concat(_)
Concat(ss) == IF ss = <<>> THEN <<>> ELSE Head(ss) \o Concat(Tail(ss))

MapSeq(s, F(_)) == [n \in 1..Len(s) |-> F(s[n])]

\* line 106-107: Cuboid::transformTo(cam_pose_Twc), computed by invocation `run`
Measured(run, lm, kf) ==
    [state |-> "computed", by |-> run, cuboid |-> lmCuboid[lm], pose |-> kfPose[kf]]

\* lines 98-138: Local Landmarks and their cached measurements, the pose
\* variables of Local KeyFrames and Fixed Cameras, the cuboid variables
SetVertices(i) ==
    /\ At(i, "vertices")
    /\ LET L == st[i]
           local == L.lLocalKeyFrames
           fixed == L.lFixedCameras
           lms == UNION {kfLandmarks[k] : k \in Range(local)}
           maxKF == Max0(Range(local) \cup Range(fixed))
           poses == MapSeq(local, LAMBDA k :
                        [id |-> PoseVertexId(k), kind |-> "pose", ent |-> k,
                         fixed |-> (k = 0), estimate |-> kfPose[k]])
                    \o MapSeq(fixed, LAMBDA k :
                        [id |-> PoseVertexId(k), kind |-> "pose", ent |-> k,
                         fixed |-> TRUE, estimate |-> kfPose[k]])
           cuboids == MapSeq(SortedSeq(lms), LAMBDA l :
                        [id |-> CuboidVertexId(l, maxKF), kind |-> "cuboid",
                         ent |-> l, fixed |-> FALSE, estimate |-> lmCuboid[l]])
       IN /\ landmarkMeasurements' =
                [k \in KFs |-> [l \in LMs |->
                    IF k \in Range(local) /\ l \in kfLandmarks[k]
                    THEN Measured(L.run, l, k)
                    ELSE landmarkMeasurements[k][l]]]
          /\ Set(i, [L EXCEPT
                       !.pc = "edges",
                       !.lLocalLandmarks = lms,
                       !.maxKFId = maxKF,
                       !.maxLandmarkId = Max0(lms),
                       !.vertices = AddVertices({}, poses \o cuboids),
                       !.added = MapSeq(poses \o cuboids, End)])
    /\ UNCHANGED <<static, links, estimates, stamps, mMutexMapUpdate, stopFlag,
                   crashed, budget>>

\* lines 164-255 for one Local MapPoint, given the problem V built so far:
\* its point variable and the factors of its observations by non-bad KeyFrames
PointVertex(L, mp) ==
    [id |-> PointVertexId(mp, L.maxKFId, L.maxLandmarkId), kind |-> "point",
     ent |-> mp, fixed |-> FALSE, estimate |-> mpPos[mp]]
Observers(mp) == SelectSeq(SortedSeq(mpObs[mp]), LAMBDA k : ~kfBad[k])
ReprojectionEdges(L, V, mp, stereo) ==
    MapSeq(SelectSeq(Observers(mp), LAMBDA k : kfStereo[k] = stereo), LAMBDA k :
        [mp |-> mp, kf |-> k,
         v0 |-> End(Vertex(V, PointVertexId(mp, L.maxKFId, L.maxLandmarkId))),
         v1 |-> End(Vertex(V, PoseVertexId(k))),
         level |-> 0, robust |-> TRUE,
         chi2 |-> 0, depthPositive |-> TRUE])
\* lines 208-221: one camera-object factor per Landmark of a KeyFrame that
\* observes the point monocularly
CuboidEdges(L, V, mp) ==
    Concat(MapSeq(SelectSeq(Observers(mp), LAMBDA k : ~kfStereo[k]), LAMBDA k :
        MapSeq(SortedSeq(kfLandmarks[k]), LAMBDA l :
            [kf |-> k, lm |-> l, level |-> 0,
             v0 |-> End(Vertex(V, PoseVertexId(k))),
             v1 |-> End(Vertex(V, CuboidVertexId(l, L.maxKFId))),
             measurement |-> IF landmarkMeasurements[k][l].state = "absent"
                             THEN DefaultMeasurement
                             ELSE landmarkMeasurements[k][l]])))

RECURSIVE AddPoints(_, _)
\* lines 164-255 from the n-th Local MapPoint on
AddPoints(L, n) ==
    IF n > Len(L.lLocalMapPoints) THEN L
    ELSE LET mp == L.lLocalMapPoints[n]
             V == AddVertex(L.vertices, PointVertex(L, mp))
         IN AddPoints([L EXCEPT
                !.vertices = V,
                !.added = Append(@, End(PointVertex(L, mp))),
                !.vpEdgesMono = @ \o ReprojectionEdges(L, V, mp, FALSE),
                !.vpEdgesStereo = @ \o ReprojectionEdges(L, V, mp, TRUE),
                !.cuboidEdges = @ \o CuboidEdges(L, V, mp)], n + 1)

\* lines 140-255: point variables, reprojection and camera-object factors;
\* line 214 default-inserts a measurement the cache does not hold
SetEdges(i) ==
    /\ At(i, "edges")
    /\ LET L == AddPoints(st[i], 1)
       IN /\ Set(i, [L EXCEPT !.pc = "stop1"])
          /\ landmarkMeasurements' =
                [k \in KFs |-> [l \in LMs |->
                    IF /\ landmarkMeasurements[k][l].state = "absent"
                       /\ \E n \in 1..Len(L.cuboidEdges) :
                             L.cuboidEdges[n].kf = k /\ L.cuboidEdges[n].lm = l
                    THEN DefaultMeasurement
                    ELSE landmarkMeasurements[k][l]]]
    /\ UNCHANGED <<static, links, estimates, stamps, mMutexMapUpdate, stopFlag,
                   crashed, budget>>

\* ------------------------------------------------------------ the solver
InGraph(e) == e.v0.kind # "null" /\ e.v1.kind # "null"
Active(e) == InGraph(e) /\ e.level = 0
AllEdges(L) == Range(L.vpEdgesMono) \cup Range(L.vpEdgesStereo)
EdgeIndex(L) ==
    ({"mono"} \X (1..Len(L.vpEdgesMono))) \cup ({"stereo"} \X (1..Len(L.vpEdgesStereo)))

\* lines 280, 319 and 294, 332: the test a reprojection factor fails
\* a test that also fails a chi-square on the threshold
IsOutlierFromThreshold(chi2, depthPositive, threshold) ==
    chi2 >= threshold \/ ~depthPositive
IsOutlier(chi2, depthPositive, threshold) == chi2 > threshold \/ ~depthPositive

\* a factor after a solver call in which the factors of F fail, those of D by
\* their depth and the others by a chi-square just above the threshold; a
\* factor that passes has its chi-square on the threshold.  The solver
\* recomputes the error of active factors only; the depth is read from the
\* current estimates by isDepthPositive() whatever the level.
Solved(e, x, F, D, threshold) ==
    [e EXCEPT !.chi2 = IF ~Active(e) THEN @
                       ELSE IF x \in F \ D THEN threshold + 1 ELSE threshold,
              !.depthPositive = x \notin D]

\* a variable moves when it is free and an active factor connects it
Connected(L, v) ==
    \E e \in AllEdges(L) \cup Range(L.cuboidEdges) :
        Active(e) /\ v.id \in {e.v0.id, e.v1.id}
\* a solver that also moves the variables marked fixed
EstimatedThoughFixed(L, v) ==
    IF Connected(L, v)
    THEN [v EXCEPT !.estimate = [by |-> L.run, of |-> v.ent]]
    ELSE v
Estimated(L, v) ==
    IF ~v.fixed /\ Connected(L, v)
    THEN [v EXCEPT !.estimate = [by |-> L.run, of |-> v.ent]]
    ELSE v

\* optimizer.initializeOptimization(); optimizer.optimize(iterations)
Optimize(L, iterations, F, D) ==
    [L EXCEPT
       !.optimizeCalls = Append(@, iterations),
       !.vertices = {Estimated(L, v) : v \in L.vertices},
       !.vpEdgesMono = [n \in 1..Len(L.vpEdgesMono) |->
                           Solved(L.vpEdgesMono[n], <<"mono", n>>, F, D, Chi2Mono)],
       !.vpEdgesStereo = [n \in 1..Len(L.vpEdgesStereo) |->
                           Solved(L.vpEdgesStereo[n], <<"stereo", n>>, F, D, Chi2Stereo)]]

SolverStep(i, from, to, iterations) ==
    /\ At(i, from)
    /\ \E F \in UpTo(EdgeIndex(st[i]), outliersLeft) : \E D \in SUBSET F :
          /\ Set(i, [Optimize(st[i], iterations, F, D) EXCEPT !.pc = to])
          /\ outliersLeft' = outliersLeft - Cardinality(F)
    /\ UNCHANGED <<static, links, estimates, stamps, landmarkMeasurements,
                   mMutexMapUpdate, stopFlag, crashed, runsLeft>>

StopRequested(i) == st[i].hasStopFlag /\ stopFlag

\* a first check that records the flag and goes on to the solver
StopCheckBeforeIgnored(i) ==
    /\ At(i, "stop1")
    /\ Set(i, [st[i] EXCEPT !.pc = "opt1", !.stopSeen = Append(@, StopRequested(i))])
    /\ UNCHANGED <<static, links, estimates, stamps, landmarkMeasurements,
                   mMutexMapUpdate, stopFlag, crashed, budget>>
\* lines 257-259: return when the stop flag is set
StopCheckBefore(i) ==
    /\ At(i, "stop1")
    /\ Set(i, [st[i] EXCEPT !.pc = IF StopRequested(i) THEN "ret" ELSE "opt1",
                            !.stopSeen = Append(@, StopRequested(i))])
    /\ UNCHANGED <<static, links, estimates, stamps, landmarkMeasurements,
                   mMutexMapUpdate, stopFlag, crashed, budget>>

\* lines 261-262
InitialOptimize(i) == SolverStep(i, "opt1", "stop2", ItsInitial)

\* lines 264-270
StopCheckAfter(i) ==
    /\ At(i, "stop2")
    /\ Set(i, [st[i] EXCEPT !.pc = IF StopRequested(i) THEN "classify" ELSE "mark",
                            !.bDoMore = ~StopRequested(i),
                            !.stopSeen = Append(@, StopRequested(i))])
    /\ UNCHANGED <<static, links, estimates, stamps, landmarkMeasurements,
                   mMutexMapUpdate, stopFlag, crashed, budget>>

\* lines 273-299: a factor of a point that is not bad loses its robust kernel
\* and, when it fails the test, is moved to level 1
\* a marking pass that removes the robust kernel and demotes nothing
MarkedWithoutDemotion(e, threshold) ==
    IF mpBad[e.mp] THEN e ELSE [e EXCEPT !.robust = FALSE]
Marked(e, threshold) ==
    IF mpBad[e.mp] THEN e
    ELSE [e EXCEPT !.level = IF IsOutlier(e.chi2, e.depthPositive, threshold)
                              THEN 1 ELSE @,
                   !.robust = FALSE]
MarkOutliers(i) ==
    /\ At(i, "mark")
    /\ Set(i, [st[i] EXCEPT
                 !.pc = "opt2", !.marked = TRUE,
                 !.vpEdgesMono = MapSeq(@, LAMBDA e : Marked(e, Chi2Mono)),
                 !.vpEdgesStereo = MapSeq(@, LAMBDA e : Marked(e, Chi2Stereo))])
    /\ UNCHANGED <<static, links, estimates, stamps, landmarkMeasurements,
                   mMutexMapUpdate, stopFlag, crashed, budget>>

\* lines 303-304
RefinedOptimize(i) == SolverStep(i, "opt2", "classify", ItsRefined)

\* a classification that passes over the factors demoted by the marking pass
ToEraseActive(edges, threshold) ==
    MapSeq(SelectSeq(edges, LAMBDA e :
               /\ e.level = 0
               /\ ~mpBad[e.mp] /\ IsOutlier(e.chi2, e.depthPositive, threshold)),
           LAMBDA e : <<e.kf, e.mp>>)
\* lines 308-336: the links of failing factors of points that are not bad
ToErase(edges, threshold) ==
    MapSeq(SelectSeq(edges, LAMBDA e :
               ~mpBad[e.mp] /\ IsOutlier(e.chi2, e.depthPositive, threshold)),
           LAMBDA e : <<e.kf, e.mp>>)
Classify(i) ==
    /\ At(i, "classify")
    /\ Set(i, [st[i] EXCEPT
                 !.pc = "lock",
                 !.classifiedAfter = Len(st[i].optimizeCalls),
                 !.vToErase = ToErase(st[i].vpEdgesMono, Chi2Mono)
                              \o ToErase(st[i].vpEdgesStereo, Chi2Stereo)])
    /\ UNCHANGED <<static, links, estimates, stamps, landmarkMeasurements,
                   mMutexMapUpdate, stopFlag, crashed, budget>>

\* ------------------------------------------------------------ the commit
\* a commit that starts without taking the mutex
LockMapSkipped(i) ==
    /\ At(i, "lock")
    /\ Set(i, [st[i] EXCEPT !.pc = "erase"])
    /\ UNCHANGED <<static, links, estimates, stamps, landmarkMeasurements,
                   mMutexMapUpdate, stopFlag, crashed, budget>>
\* line 339: unique_lock<mutex> lock(pMap->mMutexMapUpdate)
LockMap(i) ==
    /\ At(i, "lock")
    /\ mMutexMapUpdate = Unlocked
    /\ mMutexMapUpdate' = HeldBy(i)
    /\ Set(i, [st[i] EXCEPT !.pc = "erase"])
    /\ UNCHANGED <<static, links, estimates, stamps, landmarkMeasurements,
                   stopFlag, crashed, budget>>

\* a link removal in a scope of its own, the mutex released when it ends
EraseLinksThenUnlock(i) ==
    /\ At(i, "erase")
    /\ LET gone == Range(st[i].vToErase)
       IN /\ kfMatches' = [k \in KFs |-> {p \in kfMatches[k] : <<k, p>> \notin gone}]
          /\ mpObs' = [p \in MPs |-> {k \in mpObs[p] : <<k, p>> \notin gone}]
    /\ mMutexMapUpdate' = Unlocked
    /\ Set(i, [st[i] EXCEPT !.pc = "poses", !.written = Append(@, "links")])
    /\ UNCHANGED <<static, estimates, stamps, landmarkMeasurements,
                   stopFlag, crashed, budget>>
\* lines 341-348: KeyFrame::EraseMapPointMatch and MapPoint::EraseObservation
\* for every queued link
EraseLinks(i) ==
    /\ At(i, "erase")
    /\ LET gone == Range(st[i].vToErase)
       IN /\ kfMatches' = [k \in KFs |-> {p \in kfMatches[k] : <<k, p>> \notin gone}]
          /\ mpObs' = [p \in MPs |-> {k \in mpObs[p] : <<k, p>> \notin gone}]
    /\ Set(i, [st[i] EXCEPT !.pc = "poses", !.written = Append(@, "links")])
    /\ UNCHANGED <<static, estimates, stamps, landmarkMeasurements,
                   mMutexMapUpdate, stopFlag, crashed, budget>>

\* lines 353-357: SetPose of every Local KeyFrame from its pose variable
RecoverKeyFrames(i) ==
    /\ At(i, "poses")
    /\ LET L == st[i]
       IN kfPose' = [k \in KFs |->
                        IF k \in Range(L.lLocalKeyFrames)
                        THEN Vertex(L.vertices, PoseVertexId(k)).estimate
                        ELSE kfPose[k]]
    /\ Set(i, [st[i] EXCEPT !.pc = "cuboids", !.written = Append(@, "poses")])
    /\ UNCHANGED <<static, links, mpPos, lmCuboid, stamps, landmarkMeasurements,
                   mMutexMapUpdate, stopFlag, crashed, budget>>

\* lines 360-364: SetPoseAndDimension of every Local Landmark
RecoverLandmarks(i) ==
    /\ At(i, "cuboids")
    /\ LET L == st[i]
       IN lmCuboid' = [l \in LMs |->
                        IF l \in L.lLocalLandmarks
                        THEN Vertex(L.vertices, CuboidVertexId(l, L.maxKFId)).estimate
                        ELSE lmCuboid[l]]
    /\ Set(i, [st[i] EXCEPT !.pc = "mappoints", !.written = Append(@, "cuboids")])
    /\ UNCHANGED <<static, links, kfPose, mpPos, stamps, landmarkMeasurements,
                   mMutexMapUpdate, stopFlag, crashed, budget>>

\* line 368: the variable the commit reads a point's estimate from
RecoveredVertex(L, mp) == Vertex(L.vertices, RecoverPointVertexId(mp, L.maxKFId))
\* dynamic_cast<VertexSBAPointXYZ*> yields null for a missing variable and for
\* one of another kind; line 369 then reads through the null pointer
CastFails(L, mp) == RecoveredVertex(L, mp).kind # "point"
\* the Local MapPoints written before the first failed cast
WrittenBeforeFault(L) ==
    {L.lLocalMapPoints[n] : n \in {m \in 1..Len(L.lLocalMapPoints) :
        \A j \in 1..m : ~CastFails(L, L.lLocalMapPoints[j])}}

\* lines 367-371, the read through a null pointer yielding some value
RecoverMapPoints(i) ==
    /\ At(i, "mappoints")
    /\ LET L == st[i]
       IN mpPos' = [p \in MPs |->
                      IF p \notin Range(L.lLocalMapPoints) THEN mpPos[p]
                      ELSE IF CastFails(L, p) THEN Garbage
                      ELSE RecoveredVertex(L, p).estimate]
    /\ Set(i, [st[i] EXCEPT !.pc = "ret", !.written = Append(@, "points")])
    /\ UNCHANGED <<static, links, kfPose, lmCuboid, stamps, landmarkMeasurements,
                   mMutexMapUpdate, stopFlag, crashed, budget>>

\* lines 367-371, the read through a null pointer faulting: the process dies
\* with the points before it written
RecoverMapPointsFault(i) ==
    /\ At(i, "mappoints")
    /\ \E p \in Range(st[i].lLocalMapPoints) : CastFails(st[i], p)
    /\ LET L == st[i]
       IN mpPos' = [p \in MPs |->
                      IF p \in WrittenBeforeFault(L)
                      THEN RecoveredVertex(L, p).estimate ELSE mpPos[p]]
    /\ crashed' = TRUE
    /\ Set(i, [st[i] EXCEPT !.pc = "fault"])
    /\ UNCHANGED <<static, links, kfPose, lmCuboid, stamps, landmarkMeasurements,
                   mMutexMapUpdate, stopFlag, budget>>

\* line 259 or 372: the function returns; the lock, when held, is released
\* and the locals are gone
Return(i) ==
    /\ At(i, "ret")
    /\ mMutexMapUpdate' = IF mMutexMapUpdate = HeldBy(i) THEN Unlocked
                          ELSE mMutexMapUpdate
    /\ Set(i, IdleLocals)
    /\ UNCHANGED <<static, links, estimates, stamps, landmarkMeasurements,
                   stopFlag, crashed, budget>>

\* ------------------------------------------------------- the environment
\* the caller raises the stop flag; an adjustment reads it at its two checks
\* only, so raising it earlier is raising it when a check is reached
RequestStop ==
    /\ ~crashed /\ ~stopFlag
    /\ \E i \in Procs : st[i].hasStopFlag /\ st[i].pc \in {"stop1", "stop2"}
    /\ stopFlag' = TRUE
    /\ UNCHANGED <<static, links, estimates, stamps, landmarkMeasurements,
                   mMutexMapUpdate, crashed, budget, st>>

\* another thread of the system takes and releases Map::mMutexMapUpdate; an
\* adjustment meets the mutex from line 339 on, so only then does it matter
\* who holds it
CommitLabels == {"erase", "poses", "cuboids", "mappoints"}
OtherLock ==
    /\ ~crashed /\ mMutexMapUpdate = Unlocked
    /\ \E i \in Procs : st[i].pc \in {"lock"} \cup CommitLabels
    /\ mMutexMapUpdate' = HeldByOther
    /\ UNCHANGED <<static, links, estimates, stamps, landmarkMeasurements,
                   stopFlag, crashed, budget, st>>
OtherUnlock ==
    /\ ~crashed /\ mMutexMapUpdate = HeldByOther
    /\ mMutexMapUpdate' = Unlocked
    /\ UNCHANGED <<static, links, estimates, stamps, landmarkMeasurements,
                   stopFlag, crashed, budget, st>>

Step(i) ==
    \/ Start(i) \/ SelectLocalMapPoints(i) \/ SelectFixedCameras(i)
    \/ SetVertices(i) \/ SetEdges(i)
    \/ StopCheckBefore(i) \/ InitialOptimize(i) \/ StopCheckAfter(i)
    \/ MarkOutliers(i) \/ RefinedOptimize(i) \/ Classify(i)
    \/ LockMap(i) \/ EraseLinks(i) \/ RecoverKeyFrames(i) \/ RecoverLandmarks(i)
    \/ RecoverMapPoints(i) \/ RecoverMapPointsFault(i) \/ Return(i)

Next == (\E i \in Procs : Step(i)) \/ RequestStop \/ OtherLock \/ OtherUnlock

\* lines 339-372: the steps of an invocation from the lock to its return
Commit(i) ==
    \/ LockMap(i) \/ EraseLinks(i) \/ RecoverKeyFrames(i) \/ RecoverLandmarks(i)
    \/ RecoverMapPoints(i) \/ RecoverMapPointsFault(i) \/ Return(i)

\* the scheduler runs a thread that can take a step of its commit, a thread
\* that finds the mutex free again and again takes it, and the other holder
\* releases it; nothing is assumed of the steps before the commit
Fairness ==
    /\ \A i \in Procs : WF_vars(Commit(i)) /\ SF_vars(LockMap(i))
    /\ WF_vars(OtherUnlock)

Spec == Init /\ [][Next]_vars
SpecSeq == InitSeq /\ [][Next]_vars
SpecConc == InitConc /\ [][Next]_vars
SpecFair == InitConc /\ [][Next]_vars /\ Fairness

\* ================================================================ claims
Started(i) == st[i].pc # "idle"
\* the problem of invocation i is built: every addVertex and addEdge is done
Built(i) == st[i].pc \notin {"idle", "points", "fixed", "vertices", "edges"}
FullBatch == <<"links", "poses", "cuboids", "points">>

\* C1: when the commit writes the Local MapPoints back, the variable it reads
\* each point's estimate from is the variable that was created for that point:
\* it exists, it is a point variable, and its id is the id it was added under.
C1_RecoveredVariableIsCreatedVariable ==
    \A i \in Procs : st[i].pc = "mappoints" =>
        \A mp \in Range(st[i].lLocalMapPoints) :
            LET L == st[i]
                created == PointVertexId(mp, L.maxKFId, L.maxLandmarkId)
            IN /\ RecoverPointVertexId(mp, L.maxKFId) = created
               /\ RecoveredVertex(L, mp) = Vertex(L.vertices, created)
               /\ RecoveredVertex(L, mp).kind = "point"

\* C2: in the problem of any window, no id is given to variables of two kinds
\* (pose ids are KeyFrame ids, cuboid ids maxKFId + 1 + landmark id, point ids
\* point id + maxKFId + maxLandmarkId + 2), and every point id is above every
\* pose id and every cuboid id.
C2_IdRangesDisjoint ==
    \A i \in Procs : Built(i) =>
        LET L == st[i]
            ids(kind) == {v.id : v \in {w \in Range(L.added) : w.kind = kind}}
        IN /\ ids("pose") = Range(L.lLocalKeyFrames) \cup Range(L.lFixedCameras)
           /\ ids("cuboid") = {L.maxKFId + 1 + l : l \in L.lLocalLandmarks}
           /\ ids("point") = {p + L.maxKFId + L.maxLandmarkId + 2 :
                                 p \in Range(L.lLocalMapPoints)}
           /\ ids("pose") \cap ids("cuboid") = {}
           /\ ids("pose") \cap ids("point") = {}
           /\ ids("cuboid") \cap ids("point") = {}
           /\ \A p \in ids("point") : \A q \in ids("pose") \cup ids("cuboid") : p > q
\* a window with variables of the three kinds, the Landmark's id being the
\* id of a Local MapPoint
C2_Witness ==
    \E i \in Procs :
        /\ Built(i)
        /\ st[i].lFixedCameras # <<>>
        /\ st[i].lLocalLandmarks \cap Range(st[i].lLocalMapPoints) # {}

\* the stop flag was set at the check before the first optimize call
StoppedBeforeStart(i) == Len(st[i].stopSeen) >= 1 /\ st[i].stopSeen[1]
\* a step of invocation i between its call and its first stop check, or its
\* return from that check
StepBeforeSolver(i) ==
    /\ st'[i] # st[i]
    /\ \/ st[i].pc \in {"idle", "points", "fixed", "vertices", "edges", "stop1"}
       \/ st[i].pc = "ret" /\ StoppedBeforeStart(i)
AbortsCleanly(i) ==
    StoppedBeforeStart(i) =>
        /\ st[i].pc = "ret"
        /\ st[i].optimizeCalls = <<>>
        /\ st[i].written = <<>>
        /\ mMutexMapUpdate # HeldBy(i)

\* C3 (as stated): when the stop flag is set at the check before the first
\* optimize call the procedure returns without a solver call and without the
\* map lock, and no step from the call to that return changes any field of the
\* scene graph, stamps and landmark-measurement caches included.
C3_StopBeforeStartIdentical ==
    /\ [](\A i \in Procs : AbortsCleanly(i))
    /\ [][\A i \in Procs : StepBeforeSolver(i) => SceneGraph' = SceneGraph]_vars
\* C3 (amended): when the stop flag is set at the check before the first
\* optimize call the procedure returns without a solver call and without the
\* map lock, and no step from the call to that return changes a pose, a
\* position, a cuboid, an observation link or a bad flag; the steps write
\* only stamps, which they set to the trigger's id, and landmark-measurement
\* cache entries of KeyFrames of the window.
C3_StopBeforeStartKeepsEstimates ==
    /\ [](\A i \in Procs : AbortsCleanly(i))
    /\ [][\A i \in Procs : StepBeforeSolver(i) =>
            /\ UNCHANGED <<kfPose, mpPos, lmCuboid, kfMatches, mpObs, kfBad, mpBad>>
            /\ \A k \in KFs :
                  /\ mnBALocalForKF'[k] \in {mnBALocalForKF[k], st'[i].pKF}
                  /\ mnBAFixedForKF'[k] \in {mnBAFixedForKF[k], st[i].pKF}
                  /\ landmarkMeasurements'[k] # landmarkMeasurements[k] =>
                        k \in Range(st[i].lLocalKeyFrames) \cup Range(st[i].lFixedCameras)
            /\ \A p \in MPs : mpBALocalForKF'[p] \in {mpBALocalForKF[p], st[i].pKF}]_vars
\* an invocation about to return from the first check, having stamped a Local
\* MapPoint and a Fixed Camera and written a landmark-measurement cache
C3_Witness ==
    \E i \in Procs :
        /\ StoppedBeforeStart(i) /\ st[i].pc = "ret"
        /\ \E p \in MPs : mpBALocalForKF[p] = st[i].pKF
        /\ \E k \in KFs : mnBAFixedForKF[k] = st[i].pKF
        /\ \E k \in KFs, l \in LMs : landmarkMeasurements[k][l] # AbsentMeasurement

\* C4: from the first link removal to the last position write of a commit the
\* invocation holds Map::mMutexMapUpdate, so whenever another process holds
\* that mutex no commit batch is partly applied.
C4_CommitAtomicity ==
    /\ \A i \in Procs :
          (st[i].pc \in CommitLabels \cup {"fault"} \/ st[i].written # <<>>) =>
              mMutexMapUpdate = HeldBy(i)
    /\ mMutexMapUpdate = HeldByOther =>
          \A i \in Procs : st[i].written = <<>> /\ st[i].pc \notin CommitLabels
    /\ \A i \in Procs : \A j \in Procs \ {i} :
          mMutexMapUpdate = HeldBy(j) /\ st[j].pc = "erase" =>
              st[i].written = <<>> /\ st[i].pc \notin CommitLabels
\* an invocation midway through its batch, links removed and poses written,
\* while the other invocation waits for the mutex
C4_Witness ==
    \E i \in Procs : \E j \in Procs \ {i} :
        /\ st[i].written = <<"links", "poses">>
        /\ st[i].vToErase # <<>>
        /\ st[j].pc = "lock"

\* C5: in every interleaving of concurrent invocations, a step that changes a
\* KeyFrame pose, a MapPoint position, a Landmark cuboid, a match table or an
\* observation set is a commit step of an invocation that holds
\* Map::mMutexMapUpdate before and after it.
C5_WritesUnderLock ==
    [][<<kfPose, mpPos, lmCuboid, kfMatches, mpObs>>'
           # <<kfPose, mpPos, lmCuboid, kfMatches, mpObs>> =>
       \E i \in Procs :
           /\ st[i].pc \in CommitLabels
           /\ st'[i] # st[i]
           /\ mMutexMapUpdate = HeldBy(i)
           /\ mMutexMapUpdate' = HeldBy(i)]_vars
\* one invocation has written poses under the mutex while the other is
\* selecting its window, building its problem or solving
C5_Witness ==
    \E i \in Procs : \E j \in Procs \ {i} :
        /\ "poses" \in Range(st[i].written)
        /\ \E k \in KFs : kfPose[k] # InitValue
        /\ st[j].pc \in {"points", "fixed", "vertices", "edges", "opt1", "mark",
                         "opt2", "classify"}

\* the stop flag was clear at the first check and set at the second
StoppedAfterInitial(i) ==
    Len(st[i].stopSeen) = 2 /\ ~st[i].stopSeen[1] /\ st[i].stopSeen[2]
\* what the second check decides: no marking pass, no refined optimize, the
\* classification made on the estimate of the initial optimize
SkipsRefinement(i) ==
    StoppedAfterInitial(i) =>
        /\ ~st[i].bDoMore /\ ~st[i].marked
        /\ st[i].optimizeCalls = <<ItsInitial>>
        /\ st[i].pc \notin {"mark", "opt2"}
        /\ st[i].pc \in {"lock", "ret", "fault"} \cup CommitLabels =>
              st[i].classifiedAfter = 1
StopAfterInitialControlFlow == \A i \in Procs : SkipsRefinement(i)

\* C6: when the stop flag is clear at the check before the initial optimize
\* and set at the check after it, the invocation makes no marking pass and no
\* refined optimize, classifies on the estimate of the initial optimize, and
\* carries out the whole commit: links, poses, cuboids and points are
\* written and the invocation returns.
C6_StopAfterInitialOptimize ==
    \A i \in Procs :
        /\ SkipsRefinement(i)
        /\ StoppedAfterInitial(i) =>
              /\ st[i].pc # "fault"
              /\ st[i].pc = "ret" => st[i].written = FullBatch
              /\ st[i].pc = "ret" =>
                    \A p \in Range(st[i].lLocalMapPoints) : mpPos[p] # Garbage

\* the window of trigger K as the selector is to yield it
LocalKeyFramesOf(K) == {K} \cup {k \in covis[K] : ~kfBad[k]}
LocalMapPointsOf(K) ==
    {p \in MPs : ~mpBad[p] /\ \E k \in LocalKeyFramesOf(K) : p \in kfMatches[k]}
FixedCamerasOf(K) ==
    {k \in KFs : /\ ~kfBad[k]
                 /\ k \notin LocalKeyFramesOf(K)
                 /\ \E p \in LocalMapPointsOf(K) : k \in mpObs[p]}
Selected(i) == st[i].pc \notin {"idle", "points", "fixed"}

\* C7: in every invocation of a sequence of invocations, whatever their
\* triggers, the Local MapPoints selected are exactly the non-bad MapPoints
\* matched in a Local KeyFrame and the Fixed Cameras exactly the non-bad
\* KeyFrames that observe a Local MapPoint and are not Local KeyFrames.
C7_SelectorYieldsWindow ==
    \A i \in Procs : Selected(i) /\ st[i].written = <<>> =>
        /\ Range(st[i].lLocalKeyFrames) = LocalKeyFramesOf(st[i].pKF)
        /\ Range(st[i].lLocalMapPoints) = LocalMapPointsOf(st[i].pKF)
        /\ Range(st[i].lFixedCameras) = FixedCamerasOf(st[i].pKF)

\* the invocations under way have pairwise different triggers
DifferentTriggers ==
    \A i \in Procs : \A j \in Procs \ {i} :
        Started(i) /\ Started(j) => st[i].pKF # st[j].pKF

\* C8: in every interleaving of concurrent invocations with different
\* triggers, no KeyFrame is both Local KeyFrame and Fixed Camera of an
\* invocation, no KeyFrame is twice in either list, no MapPoint is twice in
\* the Local MapPoints, and no variable id is added to a problem twice.
C8_SelectedSetsDisjoint ==
    DifferentTriggers =>
        \A i \in Procs :
            /\ NoDup(st[i].lLocalKeyFrames)
            /\ NoDup(st[i].lFixedCameras)
            /\ NoDup(st[i].lLocalMapPoints)
            /\ Range(st[i].lLocalKeyFrames) \cap Range(st[i].lFixedCameras) = {}
            /\ NoDup(MapSeq(st[i].added, LAMBDA v : v.id))

\* C9: every camera-object factor joins the pose variable of its KeyFrame to
\* the cuboid variable of a Local Landmark: the landmark is in the Local
\* Landmarks, and the second endpoint is that landmark's cuboid variable,
\* never a missing variable or one of another kind.
C9_CameraObjectFactorEndpoints ==
    \A i \in Procs : \A n \in 1..Len(st[i].cuboidEdges) :
        LET e == st[i].cuboidEdges[n]
        IN /\ e.v0 = [id |-> PoseVertexId(e.kf), kind |-> "pose"]
           /\ e.lm \in st[i].lLocalLandmarks
           /\ e.v1 = [id |-> CuboidVertexId(e.lm, st[i].maxKFId), kind |-> "cuboid"]

\* C10: an invocation whose trigger has no covisible neighbour and no
\* MapPoint match never calls the solver, and does not fail.
C10_DegenerateInputSkipsSolver ==
    \A i \in Procs :
        Started(i) /\ covis[st[i].pKF] = {} /\ kfMatches[st[i].pKF] = {} =>
            st[i].optimizeCalls = <<>> /\ st[i].pc # "fault"

\* a reprojection factor of invocation locals L was created for the link of
\* KeyFrame k and MapPoint p, the point is not bad, and the factor's
\* chi-square is above the threshold of its type or its depth is not positive
Fails(e, k, p, threshold) ==
    e.kf = k /\ e.mp = p /\ (e.chi2 > threshold \/ ~e.depthPositive)
Flagged(L, k, p) ==
    /\ ~mpBad[p]
    /\ \/ \E n \in 1..Len(L.vpEdgesMono) : Fails(L.vpEdgesMono[n], k, p, Chi2Mono)
       \/ \E n \in 1..Len(L.vpEdgesStereo) : Fails(L.vpEdgesStereo[n], k, p, Chi2Stereo)
LinkRemoval(i) == st[i].pc = "erase" /\ st'[i].pc = "poses"

\* C11: the link removal of an invocation takes a link of KeyFrame k and
\* MapPoint p out of the match table of k and out of the observation set of p
\* exactly when a reprojection factor was created for it, p is not bad and the
\* factor fails the test of its type, whatever the factor's level; no other
\* step removes or adds a link.
C11_SeveredIffFlagged ==
    [][/\ \A i \in Procs : LinkRemoval(i) =>
             \A k \in KFs, p \in MPs :
                 /\ p \in kfMatches'[k] <=> (p \in kfMatches[k] /\ ~Flagged(st[i], k, p))
                 /\ k \in mpObs'[p] <=> (k \in mpObs[p] /\ ~Flagged(st[i], k, p))
       /\ links' # links => \E i \in Procs : LinkRemoval(i)]_vars
\* links removed: the link of a factor the marking pass had demoted is gone
\* from both tables while the link of another factor is kept
C11_Witness ==
    \E i \in Procs :
        /\ "links" \in Range(st[i].written)
        /\ \E a \in AllEdges(st[i]), b \in AllEdges(st[i]) :
              /\ a.level = 1
              /\ a.mp \notin kfMatches[a.kf] /\ a.kf \notin mpObs[a.mp]
              /\ b.mp \in kfMatches[b.kf] /\ b.kf \in mpObs[b.mp]

\* C12: in the problem of an invocation the pose variables of the Fixed
\* Cameras and of KeyFrame 0 are fixed and keep the pose the map holds, the
\* pose variables of the other Local KeyFrames are free; a pose changes only
\* in the pose write-back and only for a Local KeyFrame that is neither
\* KeyFrame 0 nor a Fixed Camera, a position only in the point write-back of
\* a Local MapPoint, a cuboid only in the cuboid write-back of a Local
\* Landmark; no bad flag, covisibility or landmark association changes, and
\* links change only by the link removal, which adds none.
C12_Frame ==
    /\ [](\A i \in Procs : \A v \in st[i].vertices : v.kind = "pose" =>
            /\ v.fixed <=> (v.ent = 0 \/ v.ent \in Range(st[i].lFixedCameras))
            /\ v.fixed => v.estimate = kfPose[v.ent])
    /\ [][/\ \A k \in KFs : kfPose'[k] # kfPose[k] =>
                \E i \in Procs :
                    /\ st[i].pc = "poses" /\ st'[i].pc = "cuboids"
                    /\ k \in Range(st[i].lLocalKeyFrames) \ Range(st[i].lFixedCameras)
                    /\ k # 0
          /\ \A p \in MPs : mpPos'[p] # mpPos[p] =>
                \E i \in Procs :
                    /\ st[i].pc = "mappoints"
                    /\ p \in Range(st[i].lLocalMapPoints)
          /\ \A l \in LMs : lmCuboid'[l] # lmCuboid[l] =>
                \E i \in Procs :
                    /\ st[i].pc = "cuboids" /\ st'[i].pc = "mappoints"
                    /\ l \in st[i].lLocalLandmarks
          /\ UNCHANGED <<kfBad, mpBad, covis, kfLandmarks, kfStereo>>
          /\ \A k \in KFs : kfMatches'[k] \subseteq kfMatches[k]
          /\ \A p \in MPs : mpObs'[p] \subseteq mpObs[p]
          /\ links' # links => \E i \in Procs : LinkRemoval(i)]_vars
\* poses written back: KeyFrame 0 is a Local KeyFrame and keeps its pose,
\* another Local KeyFrame has a new pose, and the pose of a Fixed Camera is
\* the one the map held
C12_Witness ==
    \E i \in Procs :
        /\ "poses" \in Range(st[i].written)
        /\ 0 \in Range(st[i].lLocalKeyFrames) /\ kfPose[0] = InitValue
        /\ \E k \in Range(st[i].lLocalKeyFrames) : kfPose[k] # InitValue
        /\ \E k \in Range(st[i].lFixedCameras) : kfPose[k] = InitValue

\* inlier or outlier by the comparison of a chi-square with a threshold
InlierAt(e, threshold) == e.depthPositive /\ e.chi2 <= threshold
\* the marking pass has just run on the factors of invocation i
JustMarked(i) == st[i].pc = "opt2"
\* the final classification has just run
JustClassified(i) == st[i].pc = "lock"
Queued(i, e) == <<e.kf, e.mp>> \in Range(st[i].vToErase)

\* C13: after the marking pass a monocular factor of a point that is not bad
\* is at the active level exactly when its depth is positive and its
\* chi-square is at most 5.991, a stereo factor exactly when at most 7.815;
\* after the final classification the link of such a factor is queued
\* exactly when the same comparison fails: a chi-square on the threshold is
\* an inlier in both passes and one above it an outlier.
C13_ThresholdBoundary ==
    \A i \in Procs :
        /\ JustMarked(i) =>
              /\ \A n \in 1..Len(st[i].vpEdgesMono) :
                    LET e == st[i].vpEdgesMono[n]
                    IN ~mpBad[e.mp] => (e.level = 0 <=> InlierAt(e, Chi2Mono))
              /\ \A n \in 1..Len(st[i].vpEdgesStereo) :
                    LET e == st[i].vpEdgesStereo[n]
                    IN ~mpBad[e.mp] => (e.level = 0 <=> InlierAt(e, Chi2Stereo))
        /\ JustClassified(i) =>
              /\ \A n \in 1..Len(st[i].vpEdgesMono) :
                    LET e == st[i].vpEdgesMono[n]
                    IN ~mpBad[e.mp] => (~Queued(i, e) <=> InlierAt(e, Chi2Mono))
              /\ \A n \in 1..Len(st[i].vpEdgesStereo) :
                    LET e == st[i].vpEdgesStereo[n]
                    IN ~mpBad[e.mp] => (~Queued(i, e) <=> InlierAt(e, Chi2Stereo))
\* a monocular factor with its chi-square on 5.991 kept active beside a
\* stereo factor with positive depth and a chi-square above 7.815 demoted
C13_Witness ==
    \E i \in Procs :
        /\ JustMarked(i)
        /\ \E n \in 1..Len(st[i].vpEdgesMono) :
              LET e == st[i].vpEdgesMono[n]
              IN e.chi2 = Chi2Mono /\ e.depthPositive /\ e.level = 0
        /\ \E n \in 1..Len(st[i].vpEdgesStereo) :
              LET e == st[i].vpEdgesStereo[n]
              IN e.chi2 > Chi2Stereo /\ e.depthPositive /\ e.level = 1
\* after the final classification, a stereo factor with its chi-square on
\* 7.815 is kept and a monocular one above 5.991 is queued
C13_WitnessClassified ==
    \E i \in Procs :
        /\ JustClassified(i)
        /\ \E n \in 1..Len(st[i].vpEdgesStereo) :
              LET e == st[i].vpEdgesStereo[n]
              IN e.chi2 = Chi2Stereo /\ e.depthPositive /\ ~Queued(i, e)
        /\ \E n \in 1..Len(st[i].vpEdgesMono) :
              LET e == st[i].vpEdgesMono[n]
              IN e.chi2 > Chi2Mono /\ e.depthPositive /\ Queued(i, e)

\* invocation i is not the first invocation of its thread
LaterRun(i) == Started(i) /\ runsLeft[i] <= MaxRuns - 2
\* the link a factor or a queued pair stands for is in both tables
LinkPresent(k, p) == p \in kfMatches[k] /\ k \in mpObs[p]
\* before its own link removal, a later invocation has factors and queued
\* pairs for present links only
RejectsPresentLinksOnly(i) ==
    LaterRun(i) /\ st[i].written = <<>> =>
        /\ \A e \in AllEdges(st[i]) : LinkPresent(e.kf, e.mp)
        /\ \A n \in 1..Len(st[i].vToErase) :
              LinkPresent(st[i].vToErase[n][1], st[i].vToErase[n][2])
RejectionTouchesPresentLinksOnly == \A i \in Procs : RejectsPresentLinksOnly(i)

\* C14: an invocation run after earlier invocations have severed the links
\* they flagged creates factors and queues pairs for present links only, and
\* completes without error: its factors have existing endpoint variables,
\* every variable its commit recovers exists and is of the kind expected,
\* and it does not fault.
C14_IdempotentRejection ==
    \A i \in Procs :
        /\ RejectsPresentLinksOnly(i)
        /\ LaterRun(i) =>
              /\ \A e \in AllEdges(st[i]) \cup Range(st[i].cuboidEdges) : InGraph(e)
              /\ st[i].pc # "fault"
              /\ st[i].pc = "poses" =>
                    \A k \in Range(st[i].lLocalKeyFrames) :
                        Vertex(st[i].vertices, PoseVertexId(k)).kind = "pose"
              /\ st[i].pc = "mappoints" =>
                    \A p \in Range(st[i].lLocalMapPoints) : ~CastFails(st[i], p)

\* C15: the measurement of every camera-object factor of an invocation is
\* the relative cuboid pose that this invocation computed for the factor's
\* KeyFrame and Landmark and wrote to the KeyFrame's cache: not an entry that
\* operator[] default-inserted, and not one left by another invocation.
C15_MeasurementComputedByInvocation ==
    \A i \in Procs : \A n \in 1..Len(st[i].cuboidEdges) :
        LET e == st[i].cuboidEdges[n]
        IN /\ e.measurement.state = "computed"
           /\ e.measurement.by = st[i].run

\* invocation i has written its whole batch and still holds the mutex: it
\* is the last writer
LastWriter(i) == st[i].pc = "ret" /\ st[i].written = FullBatch
\* the poses and cuboids the map holds for the last writer's window are the
\* estimates of its pose and cuboid variables
LastWriterWinsPoses ==
    \A i \in Procs : LastWriter(i) =>
        /\ mMutexMapUpdate = HeldBy(i)
        /\ \A k \in Range(st[i].lLocalKeyFrames) :
              kfPose[k] = Vertex(st[i].vertices, PoseVertexId(k)).estimate
        /\ \A l \in st[i].lLocalLandmarks :
              lmCuboid[l] = Vertex(st[i].vertices, CuboidVertexId(l, st[i].maxKFId)).estimate

\* C16: with concurrent invocations, when an invocation has written its
\* batch under the mutex the map holds, for every Local KeyFrame, Local
\* Landmark and Local MapPoint of its window, the estimate of the variable
\* this invocation created for it, whatever another invocation wrote before;
\* and no invocation fails.
C16_LastWriterWins ==
    /\ LastWriterWinsPoses
    /\ \A i \in Procs :
          /\ st[i].pc # "fault"
          /\ LastWriter(i) =>
                \A p \in Range(st[i].lLocalMapPoints) :
                    mpPos[p] = Vertex(st[i].vertices,
                                      PointVertexId(p, st[i].maxKFId,
                                                    st[i].maxLandmarkId)).estimate

\* the stop flag was clear at both checks of invocation i
NeverStopped(i) == st[i].stopSeen = <<FALSE, FALSE>>
\* every reprojection factor is active and carries its robust kernel
AllActiveRobust(i) == \A e \in AllEdges(st[i]) : e.level = 0 /\ e.robust
\* what the marking pass leaves: a factor of a bad point untouched, any other
\* factor without kernel and demoted exactly when it fails the test
MarkedAsSpecified(e, threshold) ==
    IF mpBad[e.mp] THEN e.level = 0 /\ e.robust
    ELSE /\ ~e.robust
         /\ e.level = 1 <=> (e.chi2 > threshold \/ ~e.depthPositive)
\* the identity of a factor: what it joins
Joins(e) == <<e.kf, e.mp, e.v0, e.v1>>

\* C17: in an invocation that sees the stop flag clear, the initial optimize
\* (5 iterations) runs first, with every reprojection factor active and
\* robust; then the marking pass, which removes no factor, demotes exactly
\* the failing factors of points that are not bad and removes the kernel of
\* every factor of such a point; then the refined optimize (10 iterations),
\* which leaves the error of every demoted factor as it was; then the
\* classification, made after both solver calls; then the commit.
C17_TwoStageOrder ==
    /\ [](\A i \in Procs :
            /\ st[i].pc = "opt1" => st[i].optimizeCalls = <<>> /\ AllActiveRobust(i)
            /\ st[i].pc = "mark" =>
                  st[i].optimizeCalls = <<ItsInitial>> /\ AllActiveRobust(i)
            /\ st[i].pc = "opt2" =>
                  /\ st[i].optimizeCalls = <<ItsInitial>>
                  /\ \A n \in 1..Len(st[i].vpEdgesMono) :
                        MarkedAsSpecified(st[i].vpEdgesMono[n], Chi2Mono)
                  /\ \A n \in 1..Len(st[i].vpEdgesStereo) :
                        MarkedAsSpecified(st[i].vpEdgesStereo[n], Chi2Stereo)
            /\ NeverStopped(i) /\ st[i].pc = "classify" =>
                  st[i].optimizeCalls = <<ItsInitial, ItsRefined>> /\ st[i].written = <<>>
            /\ NeverStopped(i) /\ st[i].pc \in {"lock", "ret", "fault"} \cup CommitLabels =>
                  /\ st[i].optimizeCalls = <<ItsInitial, ItsRefined>>
                  /\ st[i].classifiedAfter = 2)
    /\ [][\A i \in Procs :
            /\ st[i].pc = "mark" /\ st'[i] # st[i] =>
                  /\ st'[i].pc = "opt2"
                  /\ MapSeq(st'[i].vpEdgesMono, Joins) = MapSeq(st[i].vpEdgesMono, Joins)
                  /\ MapSeq(st'[i].vpEdgesStereo, Joins) = MapSeq(st[i].vpEdgesStereo, Joins)
                  /\ st'[i].cuboidEdges = st[i].cuboidEdges
                  /\ st'[i].vertices = st[i].vertices
            /\ st[i].pc = "opt2" /\ st'[i] # st[i] =>
                  /\ st'[i].pc = "classify"
                  /\ \A n \in 1..Len(st[i].vpEdgesMono) :
                        st[i].vpEdgesMono[n].level = 1 =>
                            /\ st'[i].vpEdgesMono[n].chi2 = st[i].vpEdgesMono[n].chi2
                            /\ st'[i].vpEdgesMono[n].level = 1
                  /\ \A n \in 1..Len(st[i].vpEdgesStereo) :
                        st[i].vpEdgesStereo[n].level = 1 =>
                            /\ st'[i].vpEdgesStereo[n].chi2 = st[i].vpEdgesStereo[n].chi2
                            /\ st'[i].vpEdgesStereo[n].level = 1
                  /\ \A v \in st[i].vertices :
                        (\A e \in AllEdges(st[i]) \cup Range(st[i].cuboidEdges) :
                             e.level = 0 => v.id \notin {e.v0.id, e.v1.id})
                        => v \in st'[i].vertices]_vars
\* both solver calls made with the stop flag clear: a demoted factor beside
\* an active one that has lost its kernel
C17_Witness ==
    \E i \in Procs :
        /\ NeverStopped(i) /\ st[i].pc = "classify"
        /\ st[i].optimizeCalls = <<ItsInitial, ItsRefined>>
        /\ \E a \in AllEdges(st[i]), b \in AllEdges(st[i]) :
              a.level = 1 /\ ~a.robust /\ b.level = 0 /\ ~b.robust

\* C18: every reprojection factor of an invocation joins the point variable
\* of one of its Local MapPoints to the pose variable of one of its Local
\* KeyFrames or Fixed Cameras, and both variables are in the problem - also
\* when stamps of earlier invocations remain on the observers.
C18_ReprojectionEndpointsExist ==
    \A i \in Procs : \A e \in AllEdges(st[i]) :
        /\ e.mp \in Range(st[i].lLocalMapPoints)
        /\ e.v0 = [id |-> PointVertexId(e.mp, st[i].maxKFId, st[i].maxLandmarkId),
                   kind |-> "point"]
        /\ e.kf \in Range(st[i].lLocalKeyFrames) \cup Range(st[i].lFixedCameras)
        /\ e.v1 = [id |-> PoseVertexId(e.kf), kind |-> "pose"]

\* invocation i takes the mutex in this step
Acquires(i) == mMutexMapUpdate # HeldBy(i) /\ mMutexMapUpdate' = HeldBy(i)
\* the mutex is taken only at line 339, after the solver calls and the
\* classification and never on the return from the first check; it is held
\* during no solver call and not past the return
LockDiscipline ==
    /\ [](\A i \in Procs : mMutexMapUpdate = HeldBy(i) =>
            /\ st[i].pc \in CommitLabels \cup {"ret", "fault"}
            /\ ~StoppedBeforeStart(i)
            /\ st[i].classifiedAfter = Len(st[i].optimizeCalls))
    /\ [][\A i \in Procs :
            /\ Acquires(i) => st[i].pc = "lock" /\ st[i].written = <<>>
            /\ Len(st'[i].optimizeCalls) > Len(st[i].optimizeCalls) =>
                  mMutexMapUpdate # HeldBy(i) /\ mMutexMapUpdate' # HeldBy(i)
            /\ st[i].pc = "ret" /\ st'[i].pc = "idle" => mMutexMapUpdate' # HeldBy(i)]_vars
\* an invocation that waits for the mutex ends, unless the process has died
ProgressUnlessFault ==
    \A i \in Procs : (st[i].pc = "lock") ~> (st[i].pc = "idle" \/ crashed)

\* C19: an invocation takes the mutex at most once, only after its last
\* solver call and its classification, never on the return from the first
\* stop check, makes no solver call while it holds it and releases it at its
\* return; and under fair scheduling every invocation that reaches the
\* commit gets the mutex and returns.
C19_LockDisciplineAndProgress ==
    /\ LockDiscipline
    /\ \A i \in Procs : (st[i].pc = "lock") ~> (st[i].pc = "idle")

====
